---- MODULE Spec2Model ----
(***************************************************************************)
(* A model of streamlit_app.py: one page load (main) of the Strava         *)
(* dashboard, the token refresh, the two authenticated API calls, the      *)
(* year-to-date target (calculate_target_km) and the widgets rendered.     *)
(*                                                                         *)
(* Time is one clock, `now`, counted in ticks since the Unix epoch with    *)
(* TicksPerDay ticks to a calendar day; time.time() and                    *)
(* datetime.datetime.now() both read it.  The clock may advance between    *)
(* any two steps of the page load.                                         *)
(*                                                                         *)
(* Python floats are modelled as exact rationals (records num/den in       *)
(* lowest terms).  For the quotients the code forms, (2000/364)*d and      *)
(* (2000/365)*d, binary64 gives exactly 0.0 at d = 0 and exactly 2000.0 at *)
(* d = 364 resp. 365 and is monotone in d, as the rationals are.           *)
(***************************************************************************)
EXTENDS Integers, Sequences, FiniteSets, TLC

VARIABLES
    pc,                 \* position of main()
    now,                \* the system clock, in ticks since the epoch
    ticks,              \* how often the clock advanced during this page load
    fileExists,         \* config.toml exists
    file,               \* content of config.toml: a set of <<key, value>> lines
    initialFile,        \* content of config.toml when the page load began
    cfg,                \* main's cfg dict
    loadCalls,          \* calls of load_config
    saveCalls,          \* calls of save_config
    calls,              \* requests sent: [op, token, at, exp]
    token_js,           \* r.json() of the token request, line 33
    checkNow,           \* time.time() as read on line 78 (0: not read yet)
    checkExp,           \* cfg.get('expires_at', 0) as read on line 78
    failed,             \* the fallible operation that raised, or "none"
    raised,             \* the exception that left main unhandled, or "none"
    activities,         \* result of get_activities
    latest,             \* running_activities.iloc[0]
    activity,           \* result of get_activity
    start_year,         \* datetime.now().year as read on line 59
    end_year,           \* datetime.now().year as read on line 60
    today,              \* datetime.now() as read on line 61
    current_target_km,  \* result of calculate_target_km
    stats,              \* the year-to-date running metrics
    chart,              \* the two rows of the stacked bar chart
    route,              \* the decoded route points
    rendered            \* widgets rendered so far, in order

vars == <<pc, now, ticks, fileExists, file, initialFile, cfg, loadCalls,
          saveCalls, calls, token_js, checkNow, checkExp, failed, raised, activities,
          latest, activity, start_year, end_year, today, current_target_km,
          stats, chart, route, rendered>>

---------------------------------------------------------------------------
(* Bounds of the model.                                                    *)

\* The clock advances at most MaxTicks times during one page load.
MaxTicks == 2
\* Clock readings per calendar day (times of day that are told apart).
TicksPerDay == 2

---------------------------------------------------------------------------
(* Rationals, standing for Python floats.                                  *)

Abs(n) == IF n < 0 THEN -n ELSE n

RECURSIVE GCD(_, _)
GCD(a, b) == IF b = 0 THEN a ELSE GCD(b, a % b)

\* n/d in lowest terms, d > 0
Rat(n, d) ==
    LET g == GCD(Abs(n), d)
    IN  [num |-> n \div g, den |-> d \div g]

RatOfInt(n) == [num |-> n, den |-> 1]
RatSub(a, b) == Rat(a.num * b.den - b.num * a.den, a.den * b.den)
RatAdd(a, b) == Rat(a.num * b.den + b.num * a.den, a.den * b.den)
RatMulInt(a, n) == Rat(a.num * n, a.den)
RatLess(a, b) == a.num * b.den < b.num * a.den
RatLeq(a, b) == a.num * b.den <= b.num * a.den
Zero == RatOfInt(0)

---------------------------------------------------------------------------
(* The calendar of datetime.                                               *)

EpochYear == 1970

IsLeap(y) == (y % 4 = 0 /\ y % 100 # 0) \/ y % 400 = 0
DaysInYear(y) == IF IsLeap(y) THEN 366 ELSE 365

\* The years the model's clock starts in, and those it can reach.
Years == 2024 .. 2026
ReachableYears == 2024 .. 2027

RECURSIVE DaysBefore(_)
DaysBefore(y) == IF y = EpochYear THEN 0 ELSE DaysBefore(y - 1) + DaysInYear(y - 1)

\* Day number (days since the epoch) of Jan 1 of each year.
JanFirst == [y \in 2024 .. 2028 |-> DaysBefore(y)]
\* Day number of Dec 31 of year y.
DecLast(y) == JanFirst[y] + DaysInYear(y) - 1

\* The tick at which day `d` (0-based day of the year) of year y begins, plus tod.
Instant(y, d, tod) == (JanFirst[y] + d) * TicksPerDay + tod

DayOf(t) == t \div TicksPerDay
YearOf(t) == CHOOSE y \in ReachableYears : JanFirst[y] <= DayOf(t) /\ DayOf(t) < JanFirst[y + 1]
DayOfYear(t) == DayOf(t) - JanFirst[YearOf(t)]
IsJanFirst(t) == DayOfYear(t) = 0
IsDecLast(t) == DayOf(t) = DecLast(YearOf(t))

---------------------------------------------------------------------------
(* Dicts.                                                                  *)

EmptyDict == [k \in {} |-> 0]
Get(d, k, default) == IF k \in DOMAIN d THEN d[k] ELSE default
Put(d, k, v) == [q \in DOMAIN d \cup {k} |-> IF q = k THEN v ELSE d[q]]

\* toml.dump: one `key = value` line per key.
TomlDump(d) == {<<k, d[k]>> : k \in DOMAIN d}
\* toml.load
TomlLoad(f) == [k \in {p[1] : p \in f} |-> (CHOOSE p \in f : p[1] = k)[2]]

load_config == TomlLoad(file)
save_config(c) == TomlDump(c)

---------------------------------------------------------------------------
(* JSON values of the remote API, tagged by their JSON type.               *)

Null == [t |-> "null"]
Str(s) == [t |-> "str", v |-> s]
Obj(d) == [t |-> "obj", v |-> d]
\* Python truthiness of a polyline value: None and '' are falsy.
Truthy(j) == j.t = "str" /\ j.v # ""

---------------------------------------------------------------------------
(* What the environment can hold or answer.                                *)

BaseConfig ==
    [client_id |-> "id", client_secret |-> "secret",
     refresh_token |-> "r0", access_token |-> "a0"]

\* config.toml at the start of a page load at time t: expires_at missing, past,
\* equal to t, about to pass, or beyond the page load.
InitConfigs(t) ==
    {BaseConfig} \cup
    {Put(BaseConfig, "expires_at", e) : e \in {t - 1, t, t + 1, t + MaxTicks + 1}}

\* A complete answer of POST /oauth/token at time t.
FullTokenResponse(e) ==
    [token_type |-> "Bearer", access_token |-> "a1", refresh_token |-> "r1",
     expires_at |-> e]
Without(d, k) == [q \in DOMAIN d \ {k} |-> d[q]]
\* 2xx answers: complete (expiring in the future or not), or lacking one field.
TokenResponses(t) ==
    {FullTokenResponse(t), FullTokenResponse(t + MaxTicks + 1)} \cup
    {Without(FullTokenResponse(t + MaxTicks + 1), k) :
        k \in {"access_token", "refresh_token", "expires_at"}}

Summary(i, ty, dist, mt, sp) ==
    [id |-> i, type |-> ty, distance |-> dist, moving_time |-> mt, average_speed |-> sp]
Run1 == Summary(11, "Run", 5000, 1500, 3)
Run2 == Summary(12, "Run", 10000, 3600, 2)
Ride1 == Summary(13, "Ride", 40000, 5400, 7)
\* 2xx answers of GET /athlete/activities (newest first).
ActivityLists ==
    {<<>>, <<Ride1>>, <<Run1>>, <<Ride1, Run1>>, <<Run2, Run1>>, <<Run2, Ride1, Run1>>}

EncodedRoute == "_p~iF~ps|U_ulLnnqC"
\* The `map` member of an activity detail: absent (no key), or one of these.
MapValues ==
    {Null, Obj(EmptyDict), Obj([id |-> Str("a11")]),
     Obj([polyline |-> Null]), Obj([polyline |-> Str("")]),
     Obj([polyline |-> Str(EncodedRoute)])}
Detail(s) ==
    [id |-> s.id, name |-> "Morning Run", distance |-> s.distance,
     moving_time |-> s.moving_time, average_speed |-> s.average_speed]
\* 2xx answers of GET /activities/{id}
ActivityDetails(s) ==
    {Detail(s)} \cup {Put(Detail(s), "map", m) : m \in MapValues}

\* polyline.decode: points as <<lat, lon>> scaled by 10^5.
PolylineDecode(s) ==
    IF s = EncodedRoute THEN <<<<3850000, -12020000>>, <<4070000, -12095000>>>>
    ELSE <<>>

---------------------------------------------------------------------------
(* The page load: main().                                                  *)

Terminal == {"stopped", "crashed", "done"}

Request(op, token) ==
    [op |-> op, token |-> token, at |-> now, exp |-> Get(cfg, "expires_at", 0)]

\* Lines 72-76
LoadConfig ==
    /\ pc = "load"
    /\ loadCalls' = loadCalls + 1
    /\ IF fileExists
       THEN /\ cfg' = load_config
            /\ rendered' = Append(rendered, "title")
            /\ pc' = "expiry"
            /\ UNCHANGED failed
       ELSE /\ rendered' = rendered \o <<"title", "error: config not found">>
            /\ pc' = "stopped"
            /\ failed' = "load_config"
            /\ UNCHANGED cfg
    /\ UNCHANGED <<now, ticks, fileExists, file, initialFile, token_js,
                   saveCalls, calls,
                   checkNow, checkExp, raised, activities, latest, activity,
                   start_year, end_year, today, current_target_km, stats, chart, route>>

\* Line 78 as it would read with <=: the instant of expiry counted as expired.
NeedsRefreshLeq(c, t) == Get(c, "expires_at", 0) <= t
\* Line 78
NeedsRefresh(c, t) == Get(c, "expires_at", 0) < t

CheckExpiry ==
    /\ pc = "expiry"
    /\ checkNow' = now
    /\ checkExp' = Get(cfg, "expires_at", 0)
    /\ pc' = IF NeedsRefresh(cfg, now) THEN "refresh" ELSE "activities"
    /\ UNCHANGED <<now, ticks, fileExists, file, initialFile, token_js, cfg,
                   loadCalls,
                   saveCalls, calls, failed, raised, activities, latest, activity,
                   start_year, end_year, today, current_target_km, stats, chart,
                   route, rendered>>

\* Lines 33-38 without line 35: the rotated refresh token is read but not kept.
refresh_token_NoRotate(c, js) ==
    IF "access_token" \notin DOMAIN js THEN [cfg |-> c, ok |-> FALSE, saved |-> FALSE]
    ELSE LET c1 == Put(c, "access_token", js["access_token"])
         IN  IF "refresh_token" \notin DOMAIN js
             THEN [cfg |-> c1, ok |-> FALSE, saved |-> FALSE]
             ELSE IF "expires_at" \notin DOMAIN js
                  THEN [cfg |-> c1, ok |-> FALSE, saved |-> FALSE]
                  ELSE [cfg |-> Put(c1, "expires_at", js["expires_at"]),
                        ok |-> TRUE, saved |-> TRUE]
\* Lines 33-38 with save_config after the first assignment already.
refresh_token_SaveEarly(c, js) ==
    IF "access_token" \notin DOMAIN js THEN [cfg |-> c, ok |-> FALSE, saved |-> FALSE]
    ELSE LET c1 == Put(c, "access_token", js["access_token"])
         IN  IF "refresh_token" \notin DOMAIN js
             THEN [cfg |-> c1, ok |-> FALSE, saved |-> TRUE]
             ELSE LET c2 == Put(c1, "refresh_token", js["refresh_token"])
                  IN  IF "expires_at" \notin DOMAIN js
                      THEN [cfg |-> c2, ok |-> FALSE, saved |-> TRUE]
                      ELSE [cfg |-> Put(c2, "expires_at", js["expires_at"]),
                            ok |-> TRUE, saved |-> TRUE]
\* refresh_token after raise_for_status passed, lines 33-38: the dict is updated
\* in place key by key, a missing key raises KeyError where it is read, and
\* save_config is reached only after the three assignments.
refresh_token(c, js) ==
    IF "access_token" \notin DOMAIN js THEN [cfg |-> c, ok |-> FALSE, saved |-> FALSE]
    ELSE LET c1 == Put(c, "access_token", js["access_token"])
         IN  IF "refresh_token" \notin DOMAIN js
             THEN [cfg |-> c1, ok |-> FALSE, saved |-> FALSE]
             ELSE LET c2 == Put(c1, "refresh_token", js["refresh_token"])
                  IN  IF "expires_at" \notin DOMAIN js
                      THEN [cfg |-> c2, ok |-> FALSE, saved |-> FALSE]
                      ELSE [cfg |-> Put(c2, "expires_at", js["expires_at"]),
                            ok |-> TRUE, saved |-> TRUE]

\* Lines 83-85 without st.stop(): main would go on to line 87.
AfterRefreshFailure_FallThrough == "activities"
\* Lines 83-85: st.error, then st.stop()
AfterRefreshFailure == "stopped"

\* Lines 79-85 with refresh_token, lines 24-38
RefreshToken ==
    /\ pc = "refresh"
    /\ calls' = Append(calls, Request("refresh_token", cfg["refresh_token"]))
    /\ \/ \* the request fails or raise_for_status raises
          /\ failed' = "refresh_token"
          /\ rendered' = Append(rendered, "error: token refresh failed")
          /\ pc' = AfterRefreshFailure
          /\ UNCHANGED <<cfg, file, saveCalls, token_js>>
       \/ \E j \in TokenResponses(now) :
            LET r == refresh_token(cfg, j)
            IN  /\ token_js' = j
                /\ cfg' = r.cfg
                /\ IF r.saved
                   THEN file' = save_config(r.cfg) /\ saveCalls' = saveCalls + 1
                   ELSE UNCHANGED <<file, saveCalls>>
                /\ IF r.ok
                   THEN /\ rendered' = Append(rendered, "success: token refreshed")
                        /\ pc' = "activities"
                        /\ UNCHANGED failed
                   ELSE /\ rendered' = Append(rendered, "error: token refresh failed")
                        /\ pc' = AfterRefreshFailure
                        /\ failed' = "refresh_token"
    /\ UNCHANGED <<now, ticks, fileExists, initialFile, loadCalls, checkNow,
                   checkExp, raised, activities, latest, activity, start_year,
                   end_year, today, current_target_km, stats, chart, route>>

\* Lines 87-92 with get_activities, lines 41-47
GetActivities ==
    /\ pc = "activities"
    /\ calls' = Append(calls, Request("get_activities", cfg["access_token"]))
    /\ \/ \* the request fails or raise_for_status raises
          /\ failed' = "get_activities"
          /\ rendered' = Append(rendered, "error: failed to fetch activities")
          /\ pc' = "stopped"
          /\ UNCHANGED activities
       \/ \E l \in ActivityLists :
            /\ activities' = l
            /\ pc' = "latest"
            /\ UNCHANGED <<failed, rendered>>
    /\ UNCHANGED <<now, ticks, fileExists, file, initialFile, token_js, cfg,
                   loadCalls,
                   saveCalls, checkNow, checkExp, raised, latest, activity,
                   start_year, end_year, today, current_target_km, stats, chart,
                   route>>

\* activities_df[activities_df['type'] == 'Run'], line 99
RunningActivities(l) == SelectSeq(l, LAMBDA a : a.type = "Run")

\* Lines 94-100: an empty list stops the page; iloc[0] of an empty frame raises
\* IndexError, which nothing catches.
SelectLatest ==
    /\ pc = "latest"
    /\ IF activities = <<>>
       THEN /\ rendered' = Append(rendered, "info: no activities found")
            /\ pc' = "stopped"
            /\ UNCHANGED <<latest, raised>>
       ELSE IF RunningActivities(activities) = <<>>
            THEN /\ raised' = "IndexError"
                 /\ pc' = "crashed"
                 /\ UNCHANGED <<latest, rendered>>
            ELSE /\ latest' = RunningActivities(activities)[1]
                 /\ pc' = "detail"
                 /\ UNCHANGED <<raised, rendered>>
    /\ UNCHANGED <<now, ticks, fileExists, file, initialFile, token_js, cfg,
                   loadCalls,
                   saveCalls, calls, checkNow, checkExp, failed, activities,
                   activity, start_year, end_year, today, current_target_km,
                   stats, chart, route>>

\* Line 101 with get_activity, lines 50-55: no try around the call.
GetActivity ==
    /\ pc = "detail"
    /\ calls' = Append(calls, Request("get_activity", cfg["access_token"]))
    /\ \/ \* the request fails or raise_for_status raises
          /\ failed' = "get_activity"
          /\ raised' = "HTTPError"
          /\ pc' = "crashed"
          /\ UNCHANGED activity
       \/ \E a \in ActivityDetails(latest) :
            /\ activity' = a
            /\ pc' = "start_of_year"
            /\ UNCHANGED <<failed, raised>>
    /\ UNCHANGED <<now, ticks, fileExists, file, initialFile, token_js, cfg,
                   loadCalls,
                   saveCalls, checkNow, checkExp, activities, latest,
                   start_year, end_year, today, current_target_km, stats, chart,
                   route, rendered>>

---------------------------------------------------------------------------
(* calculate_target_km, lines 57-65: three readings of the clock.          *)

target_km == 2000

\* Line 59: start_of_year = datetime(datetime.now().year, 1, 1)
CalcStartOfYear ==
    /\ pc = "start_of_year"
    /\ start_year' = YearOf(now)
    /\ pc' = "end_of_year"
    /\ UNCHANGED <<now, ticks, fileExists, file, initialFile, token_js, cfg,
                   loadCalls,
                   saveCalls, calls, checkNow, checkExp, failed, raised,
                   activities, latest, activity, end_year, today,
                   current_target_km, stats, chart, route, rendered>>

\* Line 60: end_of_year = datetime(datetime.now().year, 12, 31)
CalcEndOfYear ==
    /\ pc = "end_of_year"
    /\ end_year' = YearOf(now)
    /\ pc' = "today"
    /\ UNCHANGED <<now, ticks, fileExists, file, initialFile, token_js, cfg,
                   loadCalls,
                   saveCalls, calls, checkNow, checkExp, failed, raised,
                   activities, latest, activity, start_year, today,
                   current_target_km, stats, chart, route, rendered>>

\* Lines 62-64, for start_of_year in year sy, end_of_year in year ey and
\* today = tick t: timedelta.days is the floor of the difference in days.
TargetToday(sy, ey, t) ==
    LET days_between == DecLast(ey) - JanFirst[sy]
        days_passed == (t - JanFirst[sy] * TicksPerDay) \div TicksPerDay
    IN  RatMulInt(Rat(target_km, days_between), days_passed)

\* Lines 61-65: today = datetime.now(), and the result
CalcToday ==
    /\ pc = "today"
    /\ today' = now
    /\ current_target_km' = TargetToday(start_year, end_year, now)
    /\ pc' = "stats"
    /\ UNCHANGED <<now, ticks, fileExists, file, initialFile, token_js, cfg,
                   loadCalls,
                   saveCalls, calls, checkNow, checkExp, failed, raised,
                   activities, latest, activity, start_year, end_year, stats,
                   chart, route, rendered>>

---------------------------------------------------------------------------
(* Statistics and rendering, lines 106-169.                                *)

RECURSIVE SumOf(_, _)
\* Series.sum() of column f
SumOf(l, f) == IF l = <<>> THEN 0 ELSE l[1][f] + SumOf(Tail(l), f)

NaN == [t |-> "nan"]
Num(r) == [t |-> "num", v |-> r]
\* Series.mean() of column f, times 3.6: NaN for an empty series
MeanKmh(l, f) == IF l = <<>> THEN NaN ELSE Num(Rat(SumOf(l, f) * 36, Len(l) * 10))

\* Line 115
RunningDistanceYearKm(l) == Rat(SumOf(RunningActivities(l), "distance"), 1000)

\* Line 135 without the max(0, ...).
RemainingUnfloored(target, actual) == RatSub(target, actual)
\* Line 135: max(0, current_target_km - running_distance_year_km)
Remaining(target, actual) ==
    LET d == RatSub(target, actual)
    IN  IF RatLess(Zero, d) THEN d ELSE Zero

\* Lines 110-111 and 130
AvgKmh(a) ==
    IF "average_speed" \in DOMAIN a /\ a["average_speed"] # 0
    THEN Num(Rat(a["average_speed"] * 36, 10))
    ELSE [t |-> "N/A"]

\* Lines 106-144
RenderStats ==
    /\ pc = "stats"
    /\ stats' = [distance_km |-> RunningDistanceYearKm(activities),
                 moving_min |-> Rat(SumOf(RunningActivities(activities), "moving_time"), 60),
                 avg_pace_kmh |-> MeanKmh(RunningActivities(activities), "average_speed"),
                 total |-> Len(RunningActivities(activities)),
                 latest_km |-> Rat(Get(activity, "distance", 0), 1000),
                 latest_kmh |-> AvgKmh(activity)]
    /\ chart' = <<[label |-> "YTD", segment |-> "Actual",
                   kms |-> RunningDistanceYearKm(activities)],
                  [label |-> "YTD", segment |-> "Target",
                   kms |-> Remaining(current_target_km,
                                     RunningDistanceYearKm(activities))]>>
    /\ rendered' = rendered \o <<"ytd metrics", "latest metrics", "chart">>
    /\ pc' = "route"
    /\ UNCHANGED <<now, ticks, fileExists, file, initialFile, token_js, cfg,
                   loadCalls,
                   saveCalls, calls, checkNow, checkExp, failed, raised,
                   activities, latest, activity, start_year, end_year, today,
                   current_target_km, route>>

\* Lines 146-169: activity.get('map', {}).get('polyline'); .get on None raises
\* AttributeError, which nothing catches.
RenderRoute ==
    /\ pc = "route"
    /\ LET m == Get(activity, "map", Obj(EmptyDict))
       IN  IF m.t # "obj"
           THEN /\ raised' = "AttributeError"
                /\ pc' = "crashed"
                /\ UNCHANGED <<route, rendered>>
           ELSE LET route_poly == Get(m.v, "polyline", Null)
                IN  /\ IF Truthy(route_poly)
                       THEN /\ route' = PolylineDecode(route_poly.v)
                            /\ rendered' = rendered \o
                                 <<"route map", "route deck", "raw activity json">>
                       ELSE /\ rendered' = rendered \o
                                 <<"info: no route available", "raw activity json">>
                            /\ UNCHANGED route
                    /\ pc' = "done"
                    /\ UNCHANGED raised
    /\ UNCHANGED <<now, ticks, fileExists, file, initialFile, token_js, cfg,
                   loadCalls,
                   saveCalls, calls, checkNow, checkExp, failed, activities,
                   latest, activity, start_year, end_year, today,
                   current_target_km, stats, chart>>

---------------------------------------------------------------------------
(* The clock.                                                              *)

\* Time passes while the page load runs.
Tick ==
    /\ pc \notin Terminal
    /\ ticks < MaxTicks
    /\ now' = now + 1
    /\ ticks' = ticks + 1
    /\ UNCHANGED <<pc, fileExists, file, initialFile, token_js, cfg, loadCalls,
                   saveCalls,
                   calls, checkNow, checkExp, failed, raised, activities, latest,
                   activity, start_year, end_year, today, current_target_km,
                   stats, chart, route, rendered>>

---------------------------------------------------------------------------
(* Specifications.                                                         *)

\* Page loads begin on Jan 1, on Jan 2, in mid-year and in the last tick of
\* Dec 31 of a leap year.
StartInstants ==
    {Instant(2026, 0, 0), Instant(2026, 1, 0), Instant(2026, 182, 1),
     Instant(2024, 365, TicksPerDay - 1)}

NotYet ==
    /\ ticks = 0
    /\ initialFile = file
    /\ cfg = EmptyDict
    /\ loadCalls = 0 /\ saveCalls = 0
    /\ calls = <<>>
    /\ token_js = EmptyDict
    /\ checkNow = 0 /\ checkExp = 0
    /\ failed = "none" /\ raised = "none"
    /\ activities = <<>>
    /\ latest = EmptyDict /\ activity = EmptyDict
    /\ start_year = 0 /\ end_year = 0 /\ today = 0
    /\ current_target_km = Zero
    /\ stats = EmptyDict
    /\ chart = <<>>
    /\ route = <<>>
    /\ rendered = <<>>

\* The state as main() is entered.
Init ==
    /\ pc = "load"
    /\ now \in StartInstants
    /\ \/ fileExists = FALSE /\ file = {}
       \/ fileExists = TRUE /\ file \in {TomlDump(c) : c \in InitConfigs(now)}
    /\ NotYet

Next ==
    \/ LoadConfig
    \/ CheckExpiry
    \/ RefreshToken
    \/ GetActivities
    \/ SelectLatest
    \/ GetActivity
    \/ CalcStartOfYear
    \/ CalcEndOfYear
    \/ CalcToday
    \/ RenderStats
    \/ RenderRoute
    \/ Tick

Spec == Init /\ [][Next]_vars

\* Every instant of the years of the model.
AllInstants ==
    {Instant(y, d, tod) : y \in Years, d \in 0 .. 365, tod \in 0 .. TicksPerDay - 1}

\* calculate_target_km entered (line 103) at any instant of the years of the
\* model, after a page load that fetched one run with a token that stays valid.
InitTarget ==
    /\ pc = "start_of_year"
    /\ now \in {t \in AllInstants : YearOf(t) \in Years}
    /\ ticks = 0
    /\ fileExists = TRUE
    /\ cfg = Put(BaseConfig, "expires_at", now + MaxTicks + 1)
    /\ file = TomlDump(cfg)
    /\ initialFile = file
    /\ loadCalls = 1 /\ saveCalls = 0
    /\ checkNow = now /\ checkExp = cfg["expires_at"]
    /\ calls = <<Request("get_activities", "a0"), Request("get_activity", "a0")>>
    /\ token_js = EmptyDict
    /\ failed = "none" /\ raised = "none"
    /\ activities = <<Run1>>
    /\ latest = Run1 /\ activity = Detail(Run1)
    /\ start_year = 0 /\ end_year = 0 /\ today = 0
    /\ current_target_km = Zero
    /\ stats = EmptyDict
    /\ chart = <<>>
    /\ route = <<>>
    /\ rendered = <<"title">>

NextTarget ==
    \/ CalcStartOfYear
    \/ CalcEndOfYear
    \/ CalcToday
    \/ Tick

SpecTarget == InitTarget /\ [][NextTarget]_vars

---------------------------------------------------------------------------
(* Properties.                                                             *)

AuthOps == {"get_activities", "get_activity"}
Loaded == TomlLoad(initialFile)
ExpiryChecked == pc \notin {"load", "expiry"} /\ failed # "load_config"
RefreshCalls == {i \in 1 .. Len(calls) : calls[i].op = "refresh_token"}
AuthCalls == {i \in 1 .. Len(calls) : calls[i].op \in AuthOps}
\* every authenticated request so far was sent after a token request
RefreshBeforeAuth == \A i \in AuthCalls : \E j \in RefreshCalls : j < i
\* line 81 has been executed
RefreshReturned == RefreshCalls # {} /\ pc # "refresh"
RefreshSucceeded == RefreshCalls # {} /\ failed # "refresh_token"
ActivitiesFetched ==
    /\ \E i \in 1 .. Len(calls) : calls[i].op = "get_activities"
    /\ failed # "get_activities"
ActivityFetched == activity # EmptyDict
ErrorShown ==
    /\ rendered # <<>>
    /\ rendered[Len(rendered)] \in
         {"error: config not found", "error: token refresh failed",
          "error: failed to fetch activities", "error: failed to fetch activity"}
Widgets ==
    {"ytd metrics", "latest metrics", "chart", "route map", "route deck",
     "raw activity json"}
NothingDrawn == \A i \in 1 .. Len(rendered) : rendered[i] \notin Widgets
Shown(w) == \E i \in 1 .. Len(rendered) : rendered[i] = w

\* C1 as stated: once line 78 has compared the expiry, expires_at <= now
\* (a missing expires_at counting as 0) means the token request is sent, and sent
\* before any authenticated request, and expires_at > now means that no token
\* request is sent in this page load.
C1_RefreshIffExpiredOrAtExpiry ==
    ExpiryChecked =>
        /\ checkExp <= checkNow =>
             /\ RefreshBeforeAuth
             /\ pc \in Terminal => RefreshCalls # {}
        /\ checkExp > checkNow => RefreshCalls = {}

\* C1 amended: once line 78 has compared the expiry, expires_at < now (a
\* missing expires_at counting as 0) means the token request is sent, and sent
\* before any authenticated request; expires_at >= now, the instant of expiry
\* included, means that no token request is sent in this page load.
C1_RefreshIffExpired ==
    ExpiryChecked =>
        /\ checkExp < checkNow =>
             /\ RefreshBeforeAuth
             /\ pc \in Terminal => RefreshCalls # {}
        /\ checkExp >= checkNow => RefreshCalls = {}

\* An expired token was refreshed and both authenticated requests followed.
C1_Witness ==
    /\ pc = "done"
    /\ checkExp < checkNow
    /\ calls[1].op = "refresh_token"
    /\ Len(calls) = 3

\* C2: no authenticated request is sent with an access token whose
\* expires_at is already in the past unless a token request was sent before it
\* in the same page load.
C2_NoExpiredTokenUse ==
    \A i \in AuthCalls :
        calls[i].exp < calls[i].at => \E j \in RefreshCalls : j < i

\* C3: whichever fallible operation fails (load_config, the token refresh,
\* get_activities, get_activity), the failure is caught, an error message is the
\* last thing shown, no metric, chart or route widget is drawn, and the page
\* load stops without an unhandled exception.
C3_FailuresHandled ==
    failed # "none" =>
        /\ pc = "stopped"
        /\ raised = "none"
        /\ ErrorShown
        /\ NothingDrawn

\* C4: at most one token request is sent per page load, and when it fails the
\* page load stops with the error shown: no authenticated request is sent.
C4_RefreshOnceNoRetry ==
    /\ Cardinality(RefreshCalls) <= 1
    /\ failed = "refresh_token" =>
         /\ pc = "stopped"
         /\ raised = "none"
         /\ ErrorShown
         /\ AuthCalls = {}

\* A token refresh failed on a 2xx answer that lacked a field.
C4_Witness ==
    /\ failed = "refresh_token"
    /\ pc = "stopped"
    /\ token_js # EmptyDict

\* C5: load_config is called exactly once, save_config at most once and only
\* by a token refresh that succeeded; without a refresh, or with a refresh that
\* failed, config.toml is as it was when the page load began.
C5_ConfigReadOnceWrittenOnSuccess ==
    /\ loadCalls = (IF pc = "load" THEN 0 ELSE 1)
    /\ saveCalls <= 1
    /\ saveCalls = 1 => RefreshSucceeded
    /\ saveCalls = 0 => file = initialFile
    /\ (RefreshCalls = {} \/ failed = "refresh_token") =>
         saveCalls = 0 /\ file = initialFile

\* The answer lacked expires_at: cfg was already changed in memory, the refresh
\* failed and the file was not written.
C5_Witness ==
    /\ failed = "refresh_token"
    /\ token_js # EmptyDict
    /\ "expires_at" \notin DOMAIN token_js
    /\ cfg # Loaded
    /\ file = initialFile

\* C6: after a token refresh that succeeded, access_token, refresh_token and
\* expires_at of cfg are the values the token endpoint returned, every other
\* key is as loaded, config.toml holds cfg, and every authenticated request
\* carries the new access token.
C6_RefreshUpdatesConfig ==
    RefreshSucceeded /\ RefreshReturned =>
        /\ DOMAIN cfg = DOMAIN Loaded \cup {"access_token", "refresh_token", "expires_at"}
        /\ \A k \in {"access_token", "refresh_token", "expires_at"} :
             cfg[k] = token_js[k]
        /\ \A k \in DOMAIN Loaded \ {"access_token", "refresh_token", "expires_at"} :
             cfg[k] = Loaded[k]
        /\ TomlLoad(file) = cfg
        /\ \A i \in AuthCalls : calls[i].token = token_js["access_token"]

\* A config without expires_at was refreshed and both authenticated requests
\* were sent afterwards.
C6_Witness ==
    /\ RefreshSucceeded
    /\ pc = "done"
    /\ "expires_at" \notin DOMAIN Loaded
    /\ Cardinality(AuthCalls) = 2
    /\ cfg["access_token"] # Loaded["access_token"]

\* C7: when the fetched list holds no activity of type Run, the page load
\* raises no error, and the statistics it reports are distance 0 and an
\* undefined mean pace.
C7_NoRunsNoCrash ==
    (ActivitiesFetched /\ RunningActivities(activities) = <<>>) =>
        /\ raised = "none"
        /\ stats # EmptyDict =>
             stats["distance_km"] = Zero /\ stats["avg_pace_kmh"] = NaN

HasPolyline(a) ==
    /\ "map" \in DOMAIN a
    /\ a["map"].t = "obj"
    /\ "polyline" \in DOMAIN a["map"].v
    /\ Truthy(a["map"].v["polyline"])

\* C8: for an activity detail without a polyline (no map key, a null or empty
\* map, a map without a non-empty polyline) the route step raises no error,
\* draws no route, shows the no-route indicator and the raw activity view.
C8_NoPolylineNoError ==
    (ActivityFetched /\ ~HasPolyline(activity)) =>
        /\ raised = "none"
        /\ ~Shown("route map") /\ ~Shown("route deck")
        /\ pc \in Terminal =>
             Shown("info: no route available") /\ Shown("raw activity json")

TargetReturned == pc = "stats"
FullTarget == RatOfInt(target_km)

\* C9: the target calculate_target_km returns is 0 when the current date is
\* Jan 1 and the annual target when it is Dec 31, whatever the year and the
\* time of day; it never exceeds the annual target and is not less than the
\* target of the day before.
C9_TargetEndpoints ==
    TargetReturned =>
        /\ IsJanFirst(today) => current_target_km = Zero
        /\ IsDecLast(today) => current_target_km = FullTarget
        /\ RatLeq(current_target_km, FullTarget)
        /\ ~IsJanFirst(today) =>
             RatLeq(TargetToday(start_year, end_year, today - TicksPerDay),
                    current_target_km)

ChartDrawn == chart # <<>>

\* C10: the Target row of the chart is max(0, target - actual): never
\* negative, target - actual when the year-to-date run distance is below the
\* target, and 0 when it meets or exceeds the target.
C10_RemainingNeverNegative ==
    ChartDrawn =>
        LET actual == chart[1].kms
            remaining == chart[2].kms
        IN  /\ actual = RunningDistanceYearKm(activities)
            /\ ~RatLess(remaining, Zero)
            /\ RatLess(actual, current_target_km) =>
                 RatAdd(remaining, actual) = current_target_km
            /\ RatLeq(current_target_km, actual) => remaining = Zero

\* The year-to-date run distance exceeds a target that is not 0.
C10_Witness ==
    /\ ChartDrawn
    /\ RatLess(Zero, current_target_km)
    /\ RatLess(current_target_km, chart[1].kms)
    /\ chart[2].kms = Zero

====
